---- MODULE Spec2Model ----
(***************************************************************************)
(* A model of nnscaler/codegen/emit.py: the naming resolver, the           *)
(* forward-operation emitter, the adapter emitter with its async-overlap   *)
(* legality analysis, and the backward dependency resolver.                *)
(*                                                                         *)
(* Python strings are sequences of one-character strings, so that joins,   *)
(* replacements and prefixes are computed and not assumed.  Python values  *)
(* are records tagged by their type in the field k.                        *)
(***************************************************************************)
EXTENDS Integers, Sequences, FiniteSets, TLC

\* ---------------------------------------------------------------- bounds
\* longest base name of a managed value
MaxNameLen == 2
\* largest unique id of a managed value handed to tensor_name
MaxTid == 3
\* most primitives of an adapter
MaxPrims == 3
\* largest device id of a primitive's device group
MaxDev == 1
\* managed values available to a forward node's output tree
NumObj == 2
\* most top-level output slots of a forward node
MaxOut == 2
\* most emit_fnode calls made for one node
MaxCalls == 2
\* forward tensors, and gradient tensors, of the mirrored pair of nodes
NumTensors == 2
\* most inputs, and most outputs, of a forward or backward node
MaxIO == 2

VARIABLES
    line_timer,   \* CompileFlag.line_timer, the process-wide instrumentation flag
    nm_a,         \* a managed value given to tensor_name
    nm_b,         \* a second managed value, of another unique id
    nm_prefix,    \* the prefix_attr argument: None or a string
    nm_ret,       \* the identifiers returned by the last tensor_name calls
    nm_seen,      \* every identifier tensor_name has returned for nm_a
    ad_node,      \* the IRAdapter given to emit_adapter
    ad_async,     \* the async_op argument of the last emit_adapter call
    ad_ret,       \* what the last emit_adapter call returned or raised
    fn_node,      \* the IRFwOperation given to emit_fnode
    fn_tid,       \* the id the tensor-id generator hands out next
    fn_ret,       \* what the last emit_fnode call on fn_node returned or raised
    fn_seen,      \* every statement list emit_fnode has returned for fn_node
    fn_calls,     \* the number of emit_fnode calls made for fn_node
    bw_node,      \* the backward node given to get_backward_callsite_io_tensors
    bw_ret        \* what get_backward_callsite_io_tensors returned

nameVars == <<nm_a, nm_b, nm_prefix, nm_ret, nm_seen>>
adVars == <<ad_node, ad_async, ad_ret>>
fnVars == <<fn_node, fn_tid, fn_ret, fn_seen, fn_calls>>
bwVars == <<bw_node, bw_ret>>
vars == <<line_timer, nameVars, adVars, fnVars, bwVars>>

\* ------------------------------------------------------- python values
None == [k |-> "none"]
PyStr(s) == [k |-> "str", s |-> s]
PyList(items) == [k |-> "list", items |-> items]
PyInt(n) == [k |-> "int", n |-> n]
PyDict(keys, items) == [k |-> "dict", keys |-> keys, items |-> items]
IRObject(name, tid, attr) == [k |-> "obj", name |-> name, tid |-> tid, attr |-> attr]
IRValue(name) == [k |-> "irvalue", name |-> name]

Digits == <<"0", "1", "2", "3", "4", "5", "6", "7", "8", "9">>

\* str(n) of a non-negative int
RECURSIVE str_int(_)
str_int(n) ==
    IF n < 10 THEN <<Digits[n + 1]>>
    ELSE str_int(n \div 10) \o <<Digits[(n % 10) + 1]>>

\* s.replace('.', '_')
replace_dot(s) == [i \in 1..Len(s) |-> IF s[i] = "." THEN "_" ELSE s[i]]

\* sep.join(parts)
RECURSIVE join(_, _)
join(sep, parts) ==
    IF Len(parts) = 0 THEN <<>>
    ELSE IF Len(parts) = 1 THEN parts[1]
    ELSE parts[1] \o sep \o join(sep, Tail(parts))

\* the identifier of a managed value without its unique id
mangle_name_only(val, prefix_attr) ==
    LET tensor_name == replace_dot(val.name)
        name == tensor_name
    IN  IF prefix_attr # None /\ val.attr THEN prefix_attr.s \o name ELSE name

\* the IRObject branch of _safe_repr_value: {prefix}{name}_{tid}
mangle(val, prefix_attr) ==
    LET tensor_name == replace_dot(val.name)
        name == join(<<"_">>, <<tensor_name, str_int(val.tid)>>)
    IN  IF prefix_attr # None /\ val.attr THEN prefix_attr.s \o name ELSE name

\* _safe_repr_value on an IRValue, an IRObject, a list, a dict or a literal
RECURSIVE safe_repr_value(_, _)
safe_repr_value(val, prefix_attr) ==
    CASE val.k = "irvalue" -> val
      [] val.k = "obj" -> IRValue(mangle(val, prefix_attr))
      [] val.k = "dict" ->
            PyDict([i \in 1..Len(val.keys) |-> safe_repr_value(val.keys[i], prefix_attr)],
                   [i \in 1..Len(val.items) |-> safe_repr_value(val.items[i], prefix_attr)])
      [] val.k = "list" ->
            PyList([i \in 1..Len(val.items) |-> safe_repr_value(val.items[i], prefix_attr)])
      [] OTHER -> val

\* repr() of what _safe_repr_value returns
RECURSIVE repr(_)
repr(val) ==
    CASE val.k = "irvalue" -> val.name
      [] val.k = "none" -> <<"N", "o", "n", "e">>
      [] val.k = "int" -> str_int(val.n)
      [] val.k = "str" -> <<"'">> \o val.s \o <<"'">>
      [] val.k = "list" ->
            <<"[">> \o join(<<",", " ">>, [i \in 1..Len(val.items) |-> repr(val.items[i])])
                    \o <<"]">>
      [] val.k = "dict" ->
            <<"{">> \o join(<<",", " ">>,
                            [i \in 1..Len(val.keys) |->
                                repr(val.keys[i]) \o <<":", " ">> \o repr(val.items[i])])
                    \o <<"}">>

\* CodeEmission.tensor_name
tensor_name(val, prefix_attr) == repr(safe_repr_value(val, prefix_attr))

\* ------------------------------------------- the naming resolver's inputs
NameChars == {"a", "1", ".", "_"}
BaseNames == UNION {[1..n -> NameChars] : n \in 1..MaxNameLen}
Prefixes == {None, PyStr(<<"p", ".">>)}
NoNames == [a |-> <<>>, b |-> <<>>, calls |-> 0]
NotCalled == [state |-> "not called"]

IdleName ==
    /\ nm_a = None /\ nm_b = None /\ nm_prefix = None
    /\ nm_ret = NoNames /\ nm_seen = {}
IdleAdapter ==
    /\ ad_node = None /\ ad_async = FALSE /\ ad_ret = NotCalled

IdleFnode ==
    /\ fn_node = None /\ fn_tid = 0 /\ fn_ret = NotCalled
    /\ fn_seen = {} /\ fn_calls = 0

IdleBackward ==
    /\ bw_node = None /\ bw_ret = NotCalled

InitName ==
    /\ line_timer = FALSE
    /\ IdleAdapter
    /\ IdleFnode
    /\ IdleBackward
    /\ \E na \in BaseNames, nb \in BaseNames, ta \in 0..MaxTid, tb \in 0..MaxTid,
          aa \in BOOLEAN, ab \in BOOLEAN :
        /\ ta # tb
        /\ nm_a = IRObject(na, ta, aa)
        /\ nm_b = IRObject(nb, tb, ab)
    /\ nm_prefix \in Prefixes
    /\ nm_ret = NoNames
    /\ nm_seen = {}

\* tensor_name(a, prefix_attr) and tensor_name(b, prefix_attr)
TensorName ==
    /\ nm_ret.calls < 2
    /\ nm_ret' = [a |-> tensor_name(nm_a, nm_prefix),
                  b |-> tensor_name(nm_b, nm_prefix),
                  calls |-> nm_ret.calls + 1]
    /\ nm_seen' = nm_seen \cup {tensor_name(nm_a, nm_prefix)}
    /\ UNCHANGED <<line_timer, nm_a, nm_b, nm_prefix, adVars, fnVars, bwVars>>

NextName == TensorName

SpecName == InitName /\ [][NextName]_vars

\* ------------------------------------------------------ emit_adapter
\* max(S) of a non-empty set of ints
Max(S) == CHOOSE m \in S : \A x \in S : x <= m

\* list.index(p): the 0-based position of the first element equal to p
index(seq, p) == (CHOOSE i \in 1..Len(seq) :
                    seq[i] = p /\ \A j \in 1..(i - 1) : seq[j] # p) - 1

\* set(p.device)
device_set(p) == {p.device[i] : i \in 1..Len(p.device)}

\* isinstance(p, CommPrim)
is_CommPrim(p) == p.comm

\* line 293: the primitives that are emitted
select_prims(node) ==
    IF node.differentiable /\ node.custom THEN <<node>> ELSE node.prims

\* lines 302-304, condition 1)
ordering_downgrade(prims) ==
    LET non_colls == SelectSeq(prims, LAMBDA p : ~is_CommPrim(p))
    IN  /\ Len(non_colls) > 1
        /\ Max({index(prims, non_colls[i]) : i \in 1..Len(non_colls)}) + 1
               # Len(non_colls)

\* condition 2) comparing only the first two collectives
group_downgrade_first_pair(prims) ==
    LET colls == SelectSeq(prims, LAMBDA p : is_CommPrim(p))
        devices == [i \in 1..Len(colls) |-> device_set(colls[i])]
    IN  Len(colls) > 1 /\ devices[2] # devices[1]

\* lines 306-308, condition 2)
group_downgrade(prims) ==
    LET colls == SelectSeq(prims, LAMBDA p : is_CommPrim(p))
        devices == [i \in 1..Len(colls) |-> device_set(colls[i])]
    IN  Len(colls) > 1 /\ ~(\A i \in 2..Len(devices) : devices[i] = devices[1])

\* lines 295-308: the async_op that reaches the emission loop
effective_async(prims, async_op) ==
    IF async_op
    THEN ~ordering_downgrade(prims) /\ ~group_downgrade(prims)
    ELSE FALSE

\* lines 315-318 with the flag put on every primitive
prim_kwargs_every_prim(prim, async_op) ==
    IF async_op THEN prim.kwargs \cup {<<"async_op", TRUE>>} ELSE prim.kwargs

\* lines 315-318: dict(prim.kwargs), with async_op=True for a collective
prim_kwargs(prim, async_op) ==
    IF async_op /\ is_CommPrim(prim)
    THEN {kv \in prim.kwargs : kv[1] # "async_op"} \cup {<<"async_op", TRUE>>}
    ELSE prim.kwargs

\* lines 310-323: the statements of one primitive
emit_prim(prim, async_op, timer) ==
    (IF timer THEN <<[op |-> "print_time", label |-> prim.signature]>> ELSE <<>>)
    \o <<[op |-> "call", prim |-> prim.signature,
          kwargs |-> prim_kwargs(prim, async_op)]>>

RECURSIVE emit_prims(_, _, _)
emit_prims(prims, async_op, timer) ==
    IF Len(prims) = 0 THEN <<>>
    ELSE emit_prim(Head(prims), async_op, timer)
            \o emit_prims(Tail(prims), async_op, timer)

\* FuncEmission.emit_adapter
emit_adapter(node, async_op, timer) ==
    IF Len(node.device) # 1
    THEN [state |-> "raised", error |-> "AssertionError"]
    ELSE LET prims == select_prims(node)
         IN  [state |-> "returned",
              codes |-> emit_prims(prims, effective_async(prims, async_op), timer)]

\* ------------------------------------------------ the adapter's inputs
Devices == 0..MaxDev
\* device groups as the planner writes them: one device or an ordered pair
DeviceLists == {<<d>> : d \in Devices} \cup {<<d, e>> : d \in Devices, e \in Devices}
PrimKinds ==
    {[comm |-> FALSE, device |-> <<0>>]}
        \cup {[comm |-> TRUE, device |-> dl] : dl \in DeviceLists}
\* the i-th primitive of an adapter; its signature stands for the whole call text
Prim(i, kind) ==
    [k |-> "prim", signature |-> i, comm |-> kind.comm, device |-> kind.device,
     kwargs |-> {}]
\* an IRAdapter is itself no CommPrim
Adapter(device, differentiable, custom, prims) ==
    [k |-> "adapter", signature |-> 0, comm |-> FALSE, device |-> device, kwargs |-> {},
     differentiable |-> differentiable, custom |-> custom, prims |-> prims]

InitAdapter ==
    /\ line_timer \in BOOLEAN
    /\ IdleName
    /\ IdleFnode
    /\ IdleBackward
    /\ \E n \in 0..MaxPrims :
        \E kinds \in [1..n -> PrimKinds], dv \in {<<0>>, <<0, 1>>},
           df \in BOOLEAN, cu \in BOOLEAN :
            ad_node = Adapter(dv, df, cu, [i \in 1..n |-> Prim(i, kinds[i])])
    /\ ad_async = FALSE
    /\ ad_ret = NotCalled

EmitAdapter ==
    /\ ad_ret = NotCalled
    /\ \E async_op \in BOOLEAN :
        /\ ad_async' = async_op
        /\ ad_ret' = emit_adapter(ad_node, async_op, line_timer)
    /\ UNCHANGED <<line_timer, ad_node, nameVars, fnVars, bwVars>>

NextAdapter == EmitAdapter

SpecAdapter == InitAdapter /\ [][NextAdapter]_vars

\* -------------------------------------------------------- emit_fnode
\* Sign2EmitRule: the signatures that have a rule
RegisteredSignatures == {<<"f">>}
has_rule(signature) == signature \in RegisteredSignatures

\* the rule's right-hand side: a call of the signature on the resolved inputs
emit_rule(node, inputs) ==
    node.signature \o <<"(">> \o join(<<",", " ">>, inputs) \o <<")">>

\* IRObject(name): a new managed value takes the generator's next id
new_IRObject(name, tid) == IRObject(name, tid, FALSE)

\* irobj_path[t] = path: a python dict keeps the position of a key it holds
dict_set(d, key, value) ==
    IF \E i \in 1..Len(d) : d[i].key = key
    THEN [i \in 1..Len(d) |-> IF d[i].key = key THEN [key |-> key, value |-> value]
                                                   ELSE d[i]]
    ELSE Append(d, [key |-> key, value |-> value])

\* lines 232-243: r(t, current_path), filling irobj_path; r_each is its loops
RECURSIVE r(_, _, _), r_each(_, _, _, _)
r(t, current_path, irobj_path) ==
    CASE t.k = "obj" -> dict_set(irobj_path, t, current_path)
      [] t.k = "list" ->
            r_each(t.items, [i \in 1..Len(t.items) |-> PyInt(i - 1)],
                   current_path, irobj_path)
      [] t.k = "dict" -> r_each(t.items, t.keys, current_path, irobj_path)
      [] OTHER -> irobj_path
r_each(items, steps, current_path, irobj_path) ==
    IF Len(items) = 0 THEN irobj_path
    ELSE r_each(Tail(items), Tail(steps), current_path,
                r(Head(items), current_path \o <<Head(steps)>>, irobj_path))

\* lines 214-217: the comment line and the timer probe
prologue(node, timer) ==
    (IF node.comment # None
     THEN <<[op |-> "comment", text |-> <<"#", " ">> \o node.comment.s]>> ELSE <<>>)
    \o (IF timer
        THEN <<[op |-> "print_time",
                label |-> repr(IF node.comment # None THEN node.comment
                               ELSE PyStr(node.signature))]>>
        ELSE <<>>)

\* '{targets} = {rhs}'
assign(targets, rhs) == [op |-> "assign", targets |-> targets, rhs |-> rhs]

\* lines 251-260: the names bound by the assignment and the new intermediates
RECURSIVE bind_outputs(_, _)
bind_outputs(outs, tid) ==
    IF Len(outs) = 0 THEN [outputs |-> <<>>, im_outputs |-> <<>>, tid |-> tid]
    ELSE IF Head(outs).k = "obj"
    THEN LET rest == bind_outputs(Tail(outs), tid)
         IN  [rest EXCEPT !.outputs = <<tensor_name(Head(outs), None)>> \o @]
    ELSE LET im_output == tensor_name(new_IRObject(<<"i", "m", "_", "o", "u", "t", "p", "u", "t">>, tid), None)
             rest == bind_outputs(Tail(outs), tid + 1)
         IN  [rest EXCEPT !.outputs = <<im_output>> \o @,
                          !.im_outputs = <<im_output>> \o @]

\* lines 266-268: out = outputs[path[0]], then out = f'{out}[{repr(p)}]' per step
RECURSIVE subscript(_, _)
subscript(out, steps) ==
    IF Len(steps) = 0 THEN out
    ELSE subscript(out \o <<"[">> \o repr(Head(steps)) \o <<"]">>, Tail(steps))

\* lines 263-269: one extraction per recorded path longer than 1
RECURSIVE extractions(_, _)
extractions(irobj_path, outputs) ==
    IF Len(irobj_path) = 0 THEN <<>>
    ELSE LET t == Head(irobj_path).key
             path == Head(irobj_path).value
         IN  (IF Len(path) = 1 THEN <<>>
              ELSE <<assign(<<tensor_name(t, None)>>,
                            subscript(outputs[path[1].n + 1], Tail(path)))>>)
             \o extractions(Tail(irobj_path), outputs)

\* lines 272-273: del of every intermediate
release_intermediates(im_outputs) ==
    [i \in 1..Len(im_outputs) |-> [op |-> "del", name |-> im_outputs[i]]]

\* the nested branch with the intermediates released before the extractions
nested_binding_release_first(node, body, irobj_path, tid) ==
    LET b == bind_outputs(node.outputs, tid)
    IN  [codes |-> <<assign(b.outputs, body)>>
                    \o release_intermediates(b.im_outputs)
                    \o extractions(irobj_path, b.outputs),
         tid |-> b.tid]

\* lines 251-273: the branch taken when some recorded path is longer than 1
nested_binding(node, body, irobj_path, tid) ==
    LET b == bind_outputs(node.outputs, tid)
    IN  [codes |-> <<assign(b.outputs, body)>>
                    \o extractions(irobj_path, b.outputs)
                    \o release_intermediates(b.im_outputs),
         tid |-> b.tid]

\* lines 247-249: the branch taken when every recorded path has length 1
flat_binding(node, body) ==
    <<assign([i \in 1..Len(node.outputs) |-> tensor_name(node.outputs[i], None)], body)>>

\* lines 219-275: emit_fnode once the rule is found
emit_found(node, codes, tid) ==
    LET inputs == [i \in 1..Len(node.inputs) |-> tensor_name(node.inputs[i], None)]
        body == emit_rule(node, inputs)
        irobj_path == r(PyList(node.outputs), <<>>, <<>>)
    IN  IF Len(node.outputs) = 0
        THEN [state |-> "returned", codes |-> codes \o <<[op |-> "expr", text |-> body]>>,
              tid |-> tid]
        ELSE IF \A i \in 1..Len(irobj_path) : Len(irobj_path[i].value) = 1
        THEN [state |-> "returned", codes |-> codes \o flat_binding(node, body),
              tid |-> tid]
        ELSE LET n == nested_binding(node, body, irobj_path, tid)
             IN  [state |-> "returned", codes |-> codes \o n.codes, tid |-> n.tid]

\* emit_fnode handing back the lines prepared before a failed lookup
emit_fnode_keeps_prologue(node, timer, tid) ==
    IF ~has_rule(node.signature)
    THEN [state |-> "returned", codes |-> prologue(node, timer), tid |-> tid]
    ELSE emit_found(node, prologue(node, timer), tid)

\* FuncEmission.emit_fnode; the lookup's error leaves it uncaught
emit_fnode(node, timer, tid) ==
    IF ~has_rule(node.signature)
    THEN [state |-> "raised", error |-> "missing rule", tid |-> tid]
    ELSE emit_found(node, prologue(node, timer), tid)

\* ---------------------------------------------- the forward node's inputs
Objs == {IRObject(<<"t">>, i, FALSE) : i \in 1..NumObj}
Leaves == Objs \cup {None}
Key == PyStr(<<"k">>)
\* containers of leaves: [], [x], [o, o'], {'k': o}
Containers1 ==
    {PyList(<<>>)} \cup {PyList(<<x>>) : x \in Leaves}
        \cup {PyList(<<x, y>>) : x \in Objs, y \in Objs}
        \cup {PyDict(<<Key>>, <<x>>) : x \in Objs}
\* a list of a one-element list: [[x]]
Containers2 == {PyList(<<PyList(<<x>>)>>) : x \in Leaves}
Slots == Leaves \cup Containers1 \cup Containers2

\* the managed values of a tree, one entry per occurrence
RECURSIVE leaf_count(_, _)
leaf_count(t, o) ==
    CASE t.k = "obj" -> IF t = o THEN 1 ELSE 0
      [] t.k \in {"list", "dict"} ->
            LET n[i \in 0..Len(t.items)] ==
                    IF i = 0 THEN 0 ELSE n[i - 1] + leaf_count(t.items[i], o)
            IN  n[Len(t.items)]
      [] OTHER -> 0

FwNode(signature, comment, outputs) ==
    [k |-> "fwop", signature |-> signature, comment |-> comment,
     inputs |-> <<IRObject(<<"x">>, 0, FALSE)>>, outputs |-> outputs]

\* another forward node of the same graph, with a nested output
OtherNode ==
    [k |-> "fwop", signature |-> <<"f">>, comment |-> None,
     inputs |-> <<>>, outputs |-> <<PyList(<<IRObject(<<"u">>, 0, FALSE)>>)>>]

\* ids 0..NumObj are taken by the graph's values
FirstFreeTid == NumObj + 1

InitFnode ==
    /\ line_timer \in BOOLEAN
    /\ IdleName
    /\ IdleAdapter
    /\ IdleBackward
    /\ \E n \in 0..MaxOut :
        \E outs \in [1..n -> Slots], sg \in {<<"f">>, <<"g">>},
           cm \in {None, PyStr(<<"c">>)} :
            \* every output leaf of a node is a value of its own
            /\ \A o \in Objs : leaf_count(PyList(outs), o) <= 1
            /\ fn_node = FwNode(sg, cm, outs)
    /\ fn_tid = FirstFreeTid
    /\ fn_ret = NotCalled
    /\ fn_seen = {}
    /\ fn_calls = 0

\* emit_fnode(fn_node, ...)
EmitFnode ==
    /\ fn_calls < MaxCalls
    /\ LET ret == emit_fnode(fn_node, line_timer, fn_tid)
       IN  /\ fn_ret' = ret
           /\ fn_tid' = ret.tid
           /\ fn_seen' = IF ret.state = "returned" THEN fn_seen \cup {ret.codes}
                         ELSE fn_seen
    /\ fn_calls' = fn_calls + 1
    /\ UNCHANGED <<line_timer, fn_node, nameVars, adVars, bwVars>>

\* emit_fnode(OtherNode, ...), an emission call for another node
EmitOtherFnode ==
    /\ fn_tid < FirstFreeTid + MaxCalls
    /\ fn_tid' = emit_fnode(OtherNode, line_timer, fn_tid).tid
    /\ UNCHANGED <<line_timer, fn_node, fn_ret, fn_seen, fn_calls, nameVars, adVars, bwVars>>

NextFnode == EmitFnode \/ EmitOtherFnode

SpecFnode == InitFnode /\ [][NextFnode]_vars

\* ------------------------------------ get_backward_callsite_io_tensors
\* isinstance(t, IRSubTensor)
is_IRSubTensor(t) == t.k = "subtensor"

\* lines 373-376: grad2tensor[t.grad] = t over fwop.inputs() + fwop.outputs()
RECURSIVE build_grad2tensor(_, _)
build_grad2tensor(tensors, grad2tensor) ==
    IF Len(tensors) = 0 THEN grad2tensor
    ELSE LET t == Head(tensors)
         IN  build_grad2tensor(Tail(tensors),
                IF is_IRSubTensor(t) /\ t.grad # None
                THEN dict_set(grad2tensor, t.grad, t)
                ELSE grad2tensor)

\* g in grad2tensor
dict_has(d, key) == \E i \in 1..Len(d) : d[i].key = key
\* grad2tensor[g]
dict_get(d, key) == d[CHOOSE i \in 1..Len(d) : d[i].key = key].value

\* [grad2tensor.get(g) for g in grads]: an unmatched gradient yields None
lookup_tensors_keep_unmatched(grads, grad2tensor) ==
    [i \in 1..Len(grads) |->
        IF dict_has(grad2tensor, grads[i]) THEN dict_get(grad2tensor, grads[i])
        ELSE None]

\* lines 380-381: [grad2tensor[g] for g in grads if g in grad2tensor]
lookup_tensors(grads, grad2tensor) ==
    LET matched == SelectSeq(grads, LAMBDA g : dict_has(grad2tensor, g))
    IN  [i \in 1..Len(matched) |-> dict_get(grad2tensor, matched[i])]

\* FuncEmission.get_backward_callsite_io_tensors
get_backward_callsite_io_tensors(bwop) ==
    IF bwop.isfw
    THEN [state |-> "raised", error |-> "AssertionError"]
    ELSE LET fwop == bwop.mirror
             grad2tensor == build_grad2tensor(fwop.inputs \o fwop.outputs, <<>>)
             input_grads == SelectSeq(bwop.outputs, is_IRSubTensor)
             output_grads == SelectSeq(bwop.inputs, is_IRSubTensor)
         IN  [state |-> "returned",
              input_tensors |-> lookup_tensors(input_grads, grad2tensor),
              output_tensors |-> lookup_tensors(output_grads, grad2tensor),
              output_grads |-> output_grads,
              input_grads |-> input_grads]

\* ------------------------------------------- the backward node's inputs
\* gradient tensors carry ids after the forward tensors'
GradTensors ==
    {[k |-> "subtensor", tid |-> NumTensors + j, grad |-> None] : j \in 1..NumTensors}
\* an IRObject that is no tensor
NonTensor == IRObject(<<"o">>, 0, FALSE)
ListsOver(S) == UNION {[1..n -> S] : n \in 0..MaxIO}
\* forward tensors under one assignment of gradient references
FwTensors(grad_of) ==
    {[k |-> "subtensor", tid |-> i, grad |-> grad_of[i]] : i \in 1..NumTensors}
\* a backward node and the forward node it mirrors
BwNode(fi, fo, bi, bo) ==
    [k |-> "bwop", isfw |-> FALSE, inputs |-> bi, outputs |-> bo,
     mirror |-> [k |-> "fwop", isfw |-> TRUE, inputs |-> fi, outputs |-> fo]]

InitBackward ==
    /\ line_timer = FALSE
    /\ IdleName
    /\ IdleAdapter
    /\ IdleFnode
    /\ \E grad_of \in [1..NumTensors -> GradTensors \cup {None}] :
        \E fi \in ListsOver(FwTensors(grad_of) \cup {NonTensor}),
           fo \in ListsOver(FwTensors(grad_of) \cup {NonTensor}),
           bi \in ListsOver(GradTensors \cup {NonTensor}),
           bo \in ListsOver(GradTensors \cup {NonTensor}) :
            bw_node = BwNode(fi, fo, bi, bo)
    /\ bw_ret = NotCalled

GetBackwardCallsiteIoTensors ==
    /\ bw_ret = NotCalled
    /\ bw_ret' = get_backward_callsite_io_tensors(bw_node)
    /\ UNCHANGED <<line_timer, bw_node, nameVars, adVars, fnVars>>

NextBackward == GetBackwardCallsiteIoTensors

SpecBackward == InitBackward /\ [][NextBackward]_vars

\* ================================================================ claims

\* C9: two managed values of different unique ids never render to the same
\* identifier under one prefix_attr, whatever their base names and attribute
\* flags, and one value renders to one identifier on every call.
C9_NamesUniqueAndStable ==
    nm_ret.calls > 0 =>
        /\ nm_ret.a # nm_ret.b
        /\ nm_seen = {nm_ret.a}

\* both values have base names that collide after '.' is replaced by '_',
\* one is an attribute under a prefix, and tensor_name ran twice
C9_Witness ==
    /\ nm_ret.calls = 2
    /\ nm_a.name # nm_b.name
    /\ replace_dot(nm_a.name) = replace_dot(nm_b.name)
    /\ nm_a.attr /\ ~nm_b.attr
    /\ nm_prefix # None

\* ---- the adapter emitter
\* the primitives whose calls emit_adapter writes, in order
EmittedPrims == select_prims(ad_node)
\* the call statements of the returned list, in order
CallsOf(ret) == SelectSeq(ret.codes, LAMBDA c : c.op = "call")
HasAsyncFlag(call) == <<"async_op", TRUE>> \in call.kwargs
NoCallFlagged == \A i \in 1..Len(CallsOf(ad_ret)) : ~HasAsyncFlag(CallsOf(ad_ret)[i])
AsyncRequested == ad_ret.state = "returned" /\ ad_async
\* some collective stands before some non-collective
CollectiveBeforeNonCollective(prims) ==
    \E i \in 1..Len(prims), j \in 1..Len(prims) :
        i < j /\ prims[i].comm /\ ~prims[j].comm
Collectives(prims) == {i \in 1..Len(prims) : prims[i].comm}
DeviceSetOf(p) == {d \in Devices : \E i \in 1..Len(p.device) : p.device[i] = d}
GroupsDiffer(prims) ==
    \E i \in Collectives(prims), j \in Collectives(prims) :
        DeviceSetOf(prims[i]) # DeviceSetOf(prims[j])
\* the i-th call belongs to the i-th primitive; collectives flagged, others not
OnlyCollectivesFlagged ==
    /\ Len(CallsOf(ad_ret)) = Len(EmittedPrims)
    /\ \A i \in 1..Len(EmittedPrims) :
        /\ CallsOf(ad_ret)[i].prim = EmittedPrims[i].signature
        /\ HasAsyncFlag(CallsOf(ad_ret)[i]) <=> EmittedPrims[i].comm

\* C1: with async_op=True, a collective standing before a non-collective
\* primitive forces synchronous emission: no call gets the async_op flag,
\* also when the sequence holds exactly one non-collective primitive.
C1_OrderingViolationForcesSync ==
    (AsyncRequested /\ CollectiveBeforeNonCollective(EmittedPrims)) => NoCallFlagged

\* C2: with async_op=True, two or more collectives whose device sets are not
\* all equal force synchronous emission; with at most one collective the
\* device-group condition downgrades nothing (the collective keeps its flag
\* when the ordering is legal).
C2_GroupMismatchForcesSync ==
    AsyncRequested =>
        /\ GroupsDiffer(EmittedPrims) => NoCallFlagged
        /\ (Cardinality(Collectives(EmittedPrims)) <= 1
              /\ ~CollectiveBeforeNonCollective(EmittedPrims))
            => OnlyCollectivesFlagged

\* three collectives, the first two on one device set, the third on another
C2_Witness ==
    /\ AsyncRequested
    /\ Len(EmittedPrims) = 3
    /\ Collectives(EmittedPrims) = {1, 2, 3}
    /\ DeviceSetOf(EmittedPrims[1]) = DeviceSetOf(EmittedPrims[2])
    /\ DeviceSetOf(EmittedPrims[1]) # DeviceSetOf(EmittedPrims[3])
    /\ NoCallFlagged

\* C3: with async_op=True and both legality conditions met, every collective's
\* call carries async_op=True and no other call does; with async_op=False, or
\* for a differentiable custom adapter emitted as one primitive, no call
\* carries a flag added by the emitter.
C3_FlagExactlyOnCollectives ==
    ad_ret.state = "returned" =>
        /\ (ad_async /\ ~CollectiveBeforeNonCollective(EmittedPrims)
              /\ ~GroupsDiffer(EmittedPrims))
            => OnlyCollectivesFlagged
        /\ (~ad_async \/ (ad_node.differentiable /\ ad_node.custom)) => NoCallFlagged

\* [non-collective, collective@{0,1}, collective@{1,0}] with an async request
C3_Witness ==
    /\ AsyncRequested
    /\ ~(ad_node.differentiable /\ ad_node.custom)
    /\ Len(EmittedPrims) = 3
    /\ Collectives(EmittedPrims) = {2, 3}
    /\ EmittedPrims[2].device = <<0, 1>>
    /\ EmittedPrims[3].device = <<1, 0>>
    /\ HasAsyncFlag(CallsOf(ad_ret)[2])
    /\ HasAsyncFlag(CallsOf(ad_ret)[3])
    /\ ~HasAsyncFlag(CallsOf(ad_ret)[1])

\* ---- the forward-operation emitter
\* the managed values of a tree, each with its path from the root
RECURSIVE PathsIn(_)
PathsIn(t) ==
    CASE t.k = "obj" -> {[obj |-> t, path |-> <<>>]}
      [] t.k = "list" ->
            UNION {{[obj |-> e.obj, path |-> <<PyInt(i - 1)>> \o e.path] :
                        e \in PathsIn(t.items[i])} : i \in 1..Len(t.items)}
      [] t.k = "dict" ->
            UNION {{[obj |-> e.obj, path |-> <<t.keys[i]>> \o e.path] :
                        e \in PathsIn(t.items[i])} : i \in 1..Len(t.items)}
      [] OTHER -> {}
OutputPaths == PathsIn(PyList(fn_node.outputs))
DeepValues == {e \in OutputPaths : Len(e.path) > 1}
\* the top-level slots that hold no managed value
PlaceholderSlots == {i \in 1..Len(fn_node.outputs) : fn_node.outputs[i].k # "obj"}
Returned == fn_ret.state = "returned"
\* the statements after the comment and timer lines
Statements == SelectSeq(fn_ret.codes, LAMBDA c : c.op \notin {"comment", "print_time"})
\* base[s1][s2]...
Indexed(base, steps) ==
    LET part[i \in 0..Len(steps)] ==
            IF i = 0 THEN base
            ELSE part[i - 1] \o <<"[">> \o repr(steps[i]) \o <<"]">>
    IN  part[Len(steps)]
SynthesizedNames ==
    {<<"i", "m", "_", "o", "u", "t", "p", "u", "t", "_">> \o str_int(t) :
        t \in FirstFreeTid..(FirstFreeTid + (MaxCalls + 1) * (MaxOut + 1))}

C5_PlaceholdersGetIntermediates ==
    (Returned /\ Len(fn_node.outputs) >= 1) =>
        /\ Statements[1].op = "assign"
        /\ \A i \in PlaceholderSlots :
            /\ Statements[1].targets[i] \in SynthesizedNames
            /\ Statements[1].targets[i] # repr(fn_node.outputs[i])
            /\ \A j \in PlaceholderSlots :
                i # j => Statements[1].targets[i] # Statements[1].targets[j]

\* C7: a forward node whose signature has no rule ends in the missing-rule
\* error: no statement list is returned, whatever the comment and line-timer
\* settings, and the emission state is left as it was.
C7_MissingRuleNoPartialOutput ==
    [][((fn_calls' = fn_calls + 1) /\ fn_node.signature \notin RegisteredSignatures)
          => /\ fn_ret'.state = "raised"
             /\ "codes" \notin DOMAIN fn_ret'
             /\ fn_tid' = fn_tid
             /\ fn_seen' = fn_seen
             /\ line_timer' = line_timer]_vars

\* an unregistered signature, a comment and the line timer on: the call raised
C7_Witness ==
    /\ fn_calls = 2
    /\ fn_node.signature = <<"g">>
    /\ fn_node.comment # None
    /\ line_timer
    /\ fn_ret.state = "raised"
    /\ fn_seen = {}

\* C8: emission is pure: every emit_fnode call on the same unchanged node with
\* the same arguments and line-timer flag returns the same statement list, in
\* any interleaving with emission calls for other nodes.
C8_RepeatedEmissionIdentical ==
    Cardinality(fn_seen) <= 1

\* ---- the backward dependency resolver
FwInputs == {bw_node.mirror.inputs[i] : i \in 1..Len(bw_node.mirror.inputs)}
FwOutputs == {bw_node.mirror.outputs[i] : i \in 1..Len(bw_node.mirror.outputs)}
TensorLike(seq) == SelectSeq(seq, LAMBDA t : t.k = "subtensor")
\* the forward inputs and outputs whose grad reference is g
ForwardTensorsOf(g) ==
    {t \in FwInputs \cup FwOutputs : t.k = "subtensor" /\ t.grad = g}
\* tensors replaces, in order, each gradient of grads that is some forward
\* tensor's grad by such a tensor, and drops the others
ResolvedFrom(tensors, grads) ==
    LET kept == SelectSeq(grads, LAMBDA g : ForwardTensorsOf(g) # {})
    IN  /\ Len(tensors) = Len(kept)
        /\ \A i \in 1..Len(kept) : tensors[i] \in ForwardTensorsOf(kept[i])

\* C6: the resolver returns input_grads = the backward node's tensor-like
\* outputs and output_grads = its tensor-like inputs, in declared order and
\* unfiltered; input_tensors and output_tensors replace each of those gradients,
\* in order, by the forward tensor it is the grad of, dropping without error
\* every gradient that is the grad of no forward input or output.
C6_BackwardResolution ==
    bw_ret # NotCalled =>
        /\ bw_ret.state = "returned"
        /\ bw_ret.input_grads = TensorLike(bw_node.outputs)
        /\ bw_ret.output_grads = TensorLike(bw_node.inputs)
        /\ ResolvedFrom(bw_ret.input_tensors, bw_ret.input_grads)
        /\ ResolvedFrom(bw_ret.output_tensors, bw_ret.output_grads)

\* forward [A] -> [B] with A.grad = gA and B.grad = gB, backward inputs
\* [gB, a non-tensor] and outputs [gA]: the result is ([A], [B], [gB], [gA])
C6_Witness ==
    /\ bw_ret # NotCalled
    /\ Len(bw_node.mirror.inputs) = 1 /\ Len(bw_node.mirror.outputs) = 1
    /\ Len(bw_node.inputs) = 2 /\ Len(bw_node.outputs) = 1
    /\ bw_node.mirror.inputs[1].k = "subtensor"
    /\ bw_node.mirror.outputs[1].k = "subtensor"
    /\ bw_node.mirror.inputs[1].tid # bw_node.mirror.outputs[1].tid
    /\ bw_node.outputs[1] = bw_node.mirror.inputs[1].grad
    /\ bw_node.inputs[1] = bw_node.mirror.outputs[1].grad
    /\ bw_node.inputs[2] = NonTensor
    /\ bw_ret.input_tensors = bw_node.mirror.inputs
    /\ bw_ret.output_tensors = bw_node.mirror.outputs
    /\ bw_ret.output_grads = <<bw_node.inputs[1]>>
    /\ bw_ret.input_grads = bw_node.outputs

\* C10: every tensor of input_tensors is an input of the mirrored forward node
\* and every tensor of output_tensors is an output of it.
C10_TensorsOnTheirSide ==
    bw_ret # NotCalled =>
        /\ \A i \in 1..Len(bw_ret.input_tensors) : bw_ret.input_tensors[i] \in FwInputs
        /\ \A i \in 1..Len(bw_ret.output_tensors) : bw_ret.output_tensors[i] \in FwOutputs
====
